---- MODULE Spec2Model ----
(***************************************************************************)
(* Cloudflare Turnstile solver: the Solver Core (src/utils/turnstile.py),  *)
(* the primary host (src/app.py) in API mode and in CLI mode, and the       *)
(* Legacy Server (src/backup.py) with its launcher, as state machines;     *)
(* load_config() of the host as an operator on configuration files.        *)
(*                                                                         *)
(* Every solve call is a coroutine on one asyncio event loop.  A step of    *)
(* the model runs one coroutine from a suspension point (an await that     *)
(* really suspends: a browser operation, a sleep, a wait on the pool) up   *)
(* to a later one; consecutive awaits that touch nothing but the call's    *)
(* own page are taken in one step.  Every browser operation either         *)
(* returns or raises, chosen nondeterministically.  Elapsed times are not  *)
(* modelled: a result records only whether it carries a `time` field.      *)
(***************************************************************************)
EXTENDS Integers, Sequences, FiniteSets, TLC

\* Bounds of the model.
NumCalls == 2
MaxThread == 2
QueueCalls == 4
MaxCleanups == 2
MaxTicks == 2

\* Program constants.
PollAttempts == 30
LegacyAttempts == 15

\* Python's None / an absent request field.
None == "<None>"

\* The browser types initialize() is tried with; "firefox" is unsupported.
BrowserTypes == {"chromium", "camoufox", "firefox"}
ChromiumFamily == {"chromium", "chrome", "msedge"}

\* Values the request fields url and sitekey are drawn from.
FieldValues == {None, "", "https://example.com"}

\* What one read of the hidden cf-turnstile-response field can return:
\* null (no such input), the empty string, a blank string, a token.
ReadValues == {None, "", " ", "tokA"}

VARIABLES
    ncalls,         \* the number of solve calls / requests of the run
    api,            \* config['api']['enabled']: API host (TRUE) or library use (FALSE)
    solver,         \* app.py's global `solver`: None or "obj"
    lifespan_pc,    \* position of app.py's lifespan()
    thread_count,   \* TurnstileSolver.thread_count
    browser_type,   \* TurnstileSolver.browser_type
    playwright,     \* the automation engine handle: "unset" | "started"
    init_pc,        \* position of initialize(): "new" | "launch" | "ready" | "failed"
    init_i,         \* browsers launched so far by initialize()
    proxy_support,  \* the proxy_support setting
    browser_pool,   \* asyncio.Queue contents: sequence of slot indices, FIFO
    getters,        \* asyncio.Queue._getters: calls waiting in get(), FIFO
    woken,          \* waiting calls whose future was resolved and that have not run
                    \* yet, in the order the event loop will run them
    pc,             \* per call: position in solve()
    slot,           \* per call: index of the browser it holds, 0 if none
    context,        \* per call: "none" | "open" | "closed"
    attempt,        \* per call: loop variable of the polling loop
    result,         \* per call: the result dict (returned once pc = "done")
    http,           \* per call: HTTP status of the response, 0 if none (yet)
    request,        \* per call: the endpoint asked and the url / sitekey given
    reads,          \* history: per call, reads made by the page-solve in progress
    firstNonEmpty,  \* history: per call, the first non-empty string read (or None)
    firstNonBlank,  \* history: per call, the first non-blank string read (or None)
    lateRead,       \* history: per call, a read was made after a non-blank one
    stranded,       \* history: per call, the lifecycle state that left the pool
                    \* without any browser when the call asked for one, or None
    proxy,          \* per call: the proxy file found, the line chosen and the
                    \* proxy settings its context was created with
    cleanup_pc,     \* position of cleanup(): "idle" | "closing" | "stopping" | "done" | "raised"
    closing,        \* the browser cleanup() is closing, 0 if none
    closes,         \* per browser: close() calls cleanup() made on it
    stops,          \* playwright.stop() calls made
    cleanups,       \* cleanup() calls that have ended
    drain,          \* history of the latest cleanup(): what it found when it was
                    \* called, and the browsers whose close() raised
    config_file,    \* what is found at CONFIG_PATH
    config,         \* app.py's global `config`
    args,           \* the command line of backup.py
    launch,         \* backup.py's __main__: "args" | "refused" | "running", and its log
    cli             \* app.py's run_cli(): its position, the sleeps of its idle
                    \* loop that returned, and what ended it

poolVars == <<browser_pool, getters, woken>>
cleanupVars == <<cleanup_pc, closing, closes, stops, cleanups, drain>>
setupVars == <<ncalls, config_file, config, args, launch, cli>>
solverVars == <<api, solver, lifespan_pc, thread_count, browser_type, playwright,
                init_pc, init_i, proxy_support, setupVars, cleanupVars>>
callVars == <<pc, slot, context, attempt, result, http>>
histVars == <<reads, firstNonEmpty, firstNonBlank, lateRead, stranded>>
vars == <<solverVars, poolVars, callVars, histVars, proxy, request>>

\* The solve calls (or HTTP requests) of the run, numbered as they arrive.
Calls == 1..ncalls

-----------------------------------------------------------------------------
(* Values *)

\* Python truthiness of a str-or-None value: `not x`.
Falsy(x) == x = None \/ x = ""

\* str.strip() on the values a read can return.
Strip(s) == IF s = " " THEN "" ELSE s

\* A response body; the fields a body does not have keep these defaults.
NoResult ==
    [status |-> None, error |-> None, token |-> None, time |-> FALSE,
     message |-> None, initialized |-> FALSE, pool_size |-> -1]

\* {"status": "error", "error": "Both 'url' and 'sitekey' are required"}
ValidationError ==
    [NoResult EXCEPT !.status = "error",
                     !.error = "Both 'url' and 'sitekey' are required"]

\* {"status": "error", "error": str(e), "time": elapsed_time}
ErrorResult(msg) ==
    [NoResult EXCEPT !.status = "error", !.error = msg, !.time = TRUE]

\* {"status": "success", "token": token, "time": elapsed_time}
SuccessResult(tok) ==
    [NoResult EXCEPT !.status = "success", !.token = tok, !.time = TRUE]

\* A request: the entry point and the two required fields as given.
Request(endpoint, url, sitekey) ==
    [endpoint |-> endpoint, url |-> url, sitekey |-> sitekey]

NoRequest == Request("none", None, None)

\* run_cli() has not been called.
NoCli == [pc |-> "none", ticks |-> 0, exit |-> None]

TimeoutMsg == "Failed to get Turnstile token after 30 attempts"
LegacyTimeoutMsg == "Failed to get Turnstile token after 15 attempts"

-----------------------------------------------------------------------------
(* asyncio.Queue, as the pool uses it (unbounded, so put never waits). *)

\* put(): append the item and resolve the future of the first waiting getter.
QueuePut(item) ==
    /\ browser_pool' = Append(browser_pool, item)
    /\ IF Len(getters) > 0
         THEN /\ getters' = Tail(getters)
              /\ woken' = Append(woken, Head(getters))
         ELSE UNCHANGED <<getters, woken>>

\* Faulty variant of QueueGet: the slot is handed out but stays in the pool.
QueueGet_NoRemove(c) ==
    IF Len(browser_pool) > 0
      THEN /\ slot' = [slot EXCEPT ![c] = Head(browser_pool)]
           /\ pc' = [pc EXCEPT ![c] = "setup_context"]
           /\ UNCHANGED <<browser_pool, getters, woken>>
      ELSE /\ getters' = Append(getters, c)
           /\ pc' = [pc EXCEPT ![c] = "get"]
           /\ UNCHANGED <<browser_pool, slot, woken>>

\* Faulty variant of QueueGet: with the pool empty the call gives up instead
\* of waiting.
QueueGet_NoWait(c) ==
    IF Len(browser_pool) > 0
      THEN /\ browser_pool' = Tail(browser_pool)
           /\ slot' = [slot EXCEPT ![c] = Head(browser_pool)]
           /\ pc' = [pc EXCEPT ![c] = "setup_context"]
           /\ UNCHANGED <<getters, woken>>
      ELSE /\ pc' = [pc EXCEPT ![c] = "done"]
           /\ UNCHANGED <<browser_pool, slot, getters, woken>>

\* get() when the call first reaches it: take the head slot if there is one,
\* otherwise join the waiting getters.
QueueGet(c) ==
    IF Len(browser_pool) > 0
      THEN /\ browser_pool' = Tail(browser_pool)
           /\ slot' = [slot EXCEPT ![c] = Head(browser_pool)]
           /\ pc' = [pc EXCEPT ![c] = "setup_context"]
           /\ UNCHANGED <<getters, woken>>
      ELSE /\ getters' = Append(getters, c)
           /\ pc' = [pc EXCEPT ![c] = "get"]
           /\ UNCHANGED <<browser_pool, slot, woken>>

-----------------------------------------------------------------------------
(* The solver's construction and initialize() *)

\* Faulty variant of InitializeEnter: no ValueError for an unsupported type.
InitializeEnter_NoTypeCheck(started) ==
    /\ init_pc = "new"
    /\ init_i' = 0
    /\ IF browser_type \in ChromiumFamily /\ ~started
         THEN /\ playwright' = playwright
              /\ init_pc' = "failed"
         ELSE /\ playwright' = IF browser_type \in ChromiumFamily
                                 THEN "started" ELSE playwright
              /\ init_pc' = IF thread_count > 0 THEN "launch" ELSE "ready"

\* initialize() up to its first browser launch: choose the automation engine
\* by browser_type, or raise ValueError for an unsupported type.
InitializeEnter(started) ==
    /\ init_pc = "new"
    /\ init_i' = 0
    /\ IF browser_type \in ChromiumFamily
         THEN IF started
                THEN /\ playwright' = "started"
                     /\ init_pc' = IF thread_count > 0 THEN "launch" ELSE "ready"
                ELSE /\ playwright' = playwright
                     /\ init_pc' = "failed"
         ELSE /\ playwright' = playwright
              /\ init_pc' = IF browser_type = "camoufox"
                              THEN (IF thread_count > 0 THEN "launch" ELSE "ready")
                              ELSE "failed"

\* _create_browser(index): TRUE when a browser comes back.  A failed launch of
\* a Chromium-family browser is retried once, headless; camoufox is not retried.
CreateBrowser(launchOk, fallbackOk) ==
    \/ launchOk
    \/ (browser_type \in ChromiumFamily /\ fallbackOk)

\* Where lifespan() stands once initialize() is at position ipc.
LifespanAfter(ipc) ==
    IF ~api THEN lifespan_pc
    ELSE IF ipc = "ready" THEN "serving"
    ELSE IF ipc = "failed" THEN "failed"
    ELSE lifespan_pc

\* Library use: the caller awaits initialize() on a constructed solver.
Initialize ==
    /\ ~api
    /\ \E started \in BOOLEAN : InitializeEnter(started)
    /\ UNCHANGED <<api, solver, lifespan_pc, thread_count, browser_type, proxy_support,
                   setupVars, cleanupVars>>
    /\ UNCHANGED <<poolVars, callVars, histVars, proxy, request>>

\* One iteration of initialize()'s loop: launch browser init_i + 1 and put it
\* into the pool; after the last one initialize() returns True.  A launch that
\* fails for good ends initialize() with the exception.
InitializeLaunch ==
    /\ init_pc = "launch"
    /\ \E launchOk \in BOOLEAN, fallbackOk \in BOOLEAN :
         IF CreateBrowser(launchOk, fallbackOk)
           THEN /\ QueuePut(init_i + 1)
                /\ init_i' = init_i + 1
                /\ init_pc' = IF init_i + 1 < thread_count THEN "launch" ELSE "ready"
           ELSE /\ init_pc' = "failed"
                /\ UNCHANGED <<init_i, poolVars>>
    /\ lifespan_pc' = LifespanAfter(init_pc')
    /\ UNCHANGED <<api, solver, thread_count, browser_type, playwright, proxy_support,
                   setupVars, cleanupVars>>
    /\ UNCHANGED <<callVars, histVars, proxy, request>>

\* lifespan() startup: construct the process-wide solver and enter initialize().
LifespanStartup ==
    /\ api
    /\ lifespan_pc = "startup"
    /\ solver = None
    /\ solver' = "obj"
    /\ \E started \in BOOLEAN : InitializeEnter(started)
    /\ lifespan_pc' = LifespanAfter(init_pc')
    /\ UNCHANGED <<api, thread_count, browser_type, proxy_support, setupVars, cleanupVars>>
    /\ UNCHANGED <<poolVars, callVars, histVars, proxy, request>>

-----------------------------------------------------------------------------
(* The proxy list, read afresh by every solve *)

\* The non-blank lines a proxy file may hold, each as its fields:
\* proxy.split(':').
ProxyLines ==
    {<<"socks5", "1.2.3.4", "1080">>,
     <<"http", "1.2.3.4", "8080", "user", "pass">>,
     <<"bad", "format">>}

\* A proxy file as one solve finds it: absent, or its non-blank lines.
ProxyFiles ==
    {[exists |-> FALSE, lines |-> {}], [exists |-> TRUE, lines |-> {}],
     [exists |-> TRUE, lines |-> ProxyLines]}
    \cup {[exists |-> TRUE, lines |-> {l}] : l \in ProxyLines}

\* The line as the file has it: the fields with ':' between them.
RECURSIVE Join(_)
Join(parts) ==
    IF Len(parts) = 1 THEN parts[1] ELSE parts[1] \o ":" \o Join(Tail(parts))

\* len(parts)
FieldCount(line) == Len(line)

\* What is known of a call's proxy before its solve has looked for one.
NoProxy ==
    [looked |-> FALSE, exists |-> FALSE, line |-> <<>>,
     server |-> None, username |-> None, password |-> None]

\* The file was consulted and gave no line to use.
NoLine(file) == [NoProxy EXCEPT !.looked = TRUE, !.exists = file.exists]

\* Faulty variant of ProxySettings: the 5-field server without its scheme.
ProxySettings_NoScheme(file, line) ==
    IF FieldCount(line) = 3
      THEN [NoLine(file) EXCEPT !.line = line, !.server = Join(line)]
    ELSE IF FieldCount(line) = 5
      THEN [NoLine(file) EXCEPT !.line = line,
                                !.server = line[2] \o ":" \o line[3],
                                !.username = line[4], !.password = line[5]]
    ELSE [NoLine(file) EXCEPT !.line = line]

\* The proxy= argument new_context() gets for the chosen line: 3 fields give
\* {"server": proxy}, 5 fields give scheme://ip:port with username and
\* password, and with any other number of fields there is no such argument.
ProxySettings(file, line) ==
    IF FieldCount(line) = 3
      THEN [NoLine(file) EXCEPT !.line = line, !.server = Join(line)]
    ELSE IF FieldCount(line) = 5
      THEN [NoLine(file) EXCEPT !.line = line,
                                !.server = line[1] \o "://" \o line[2] \o ":" \o line[3],
                                !.username = line[4], !.password = line[5]]
    ELSE [NoLine(file) EXCEPT !.line = line]

\* _setup_context / the proxy block of _solve_turnstile: the file is consulted
\* only with proxy support on, and a line is chosen only from a file that is
\* there and has one.
ContextProxy(file, line) ==
    IF ~proxy_support THEN NoProxy
    ELSE IF ~file.exists \/ file.lines = {} THEN NoLine(file)
    ELSE ProxySettings(file, line)

-----------------------------------------------------------------------------
(* solve() of the Solver Core, and the host's /api/solve handlers *)

\* solve_get / solve_post hand solve()'s result back as JSONResponse(content=
\* result): the HTTP status does not depend on the result.
SolveResponse(res) == 200

\* The call's locals after a step; a call that reaches "done" has returned
\* its result and, under the API host, has been answered.
SetCall(c, npc, nctx, natt, nres) ==
    /\ pc' = [pc EXCEPT ![c] = npc]
    /\ context' = [context EXCEPT ![c] = nctx]
    /\ attempt' = [attempt EXCEPT ![c] = natt]
    /\ result' = [result EXCEPT ![c] = nres]
    /\ http' = [http EXCEPT ![c] = IF api /\ npc = "done" THEN SolveResponse(nres) ELSE @]

\* Calls are numbered in the order they are issued.
Arrives(c) ==
    /\ pc[c] = "idle"
    /\ \A d \in Calls : d < c => pc[d] # "idle"

\* The host serves requests once startup has completed, or with the lifespan
\* protocol switched off (then no solver is ever constructed).
RequestsServed == ~api \/ lifespan_pc \in {"off", "serving"}

\* Faulty variant of SolveExcept: the except branch forgets the put.
SolveExcept_NoPut(c, msg) ==
    /\ UNCHANGED poolVars
    /\ slot' = [slot EXCEPT ![c] = 0]
    /\ SetCall(c, "done", context[c], 0, ErrorResult(msg))

\* Faulty variant of SolveExcept: the slot is put back and the exception
\* raised again, which the handler answers with HTTP 500.
SolveExcept_Reraise(c, msg) ==
    /\ QueuePut(slot[c])
    /\ slot' = [slot EXCEPT ![c] = 0]
    /\ pc' = [pc EXCEPT ![c] = "done"]
    /\ http' = [http EXCEPT ![c] = IF api THEN 500 ELSE @]
    /\ UNCHANGED <<context, attempt, result>>

\* except Exception as e: put the slot back and return the error result.
\* The context, if one was opened, is not closed here.
SolveExcept(c, msg) ==
    /\ QueuePut(slot[c])
    /\ slot' = [slot EXCEPT ![c] = 0]
    /\ SetCall(c, "done", context[c], 0, ErrorResult(msg))

\* After context.close() returned: put the slot back, return the result.
SolveReturn(c) ==
    /\ QueuePut(slot[c])
    /\ slot' = [slot EXCEPT ![c] = 0]
    /\ SetCall(c, "done", "closed", 0, result[c])

\* Faulty variant of SolveEnter: the slot is asked for without validating the fields.
SolveEnter_NoValidation(c, url, sitekey) ==
    /\ QueueGet(c)
    /\ UNCHANGED <<context, attempt, result, http>>

\* solve() from its entry to its first suspension: validation, then get().
SolveEnter(c, url, sitekey) ==
    IF Falsy(url) \/ Falsy(sitekey)
      THEN /\ SetCall(c, "done", "none", 0, ValidationError)
           /\ UNCHANGED <<slot, poolVars>>
      ELSE /\ QueueGet(c)
           /\ UNCHANGED <<context, attempt, result, http>>

\* Why no browser can be had when a call asks for one, if no call holds one:
\* initialize() has not been called, it failed before its first browser, or
\* cleanup() has ended; None in every other state.
PoolState ==
    IF Len(browser_pool) > 0 \/ (\E d \in Calls : slot[d] # 0) THEN None
    ELSE IF cleanup_pc \in {"done", "raised"} THEN "after cleanup()"
    ELSE IF init_pc = "new" THEN "before initialize()"
    ELSE IF init_pc = "failed" /\ init_i = 0 /\ cleanup_pc = "idle"
      THEN "initialize() failed"
    ELSE None

\* A direct call of solve() on the solver object.
solve(c) ==
    /\ ~api
    /\ Arrives(c)
    /\ \E url \in FieldValues, sitekey \in FieldValues :
         /\ SolveEnter(c, url, sitekey)
         /\ request' = [request EXCEPT ![c] = Request("solve()", url, sitekey)]
         /\ stranded' = [stranded EXCEPT ![c] =
                IF Falsy(url) \/ Falsy(sitekey) THEN None ELSE PoolState]
    /\ UNCHANGED <<solverVars, reads, firstNonEmpty, firstNonBlank, lateRead, proxy>>

\* raise HTTPException(status_code=...): the handler answers without calling
\* solve().
Refuse(c, code) ==
    /\ pc' = [pc EXCEPT ![c] = "done"]
    /\ http' = [http EXCEPT ![c] = code]
    /\ UNCHANGED <<slot, context, attempt, result, poolVars>>

\* Both handlers declare url and sitekey as required strings, so their body
\* runs with both given (possibly empty).
HandleSolve(c, endpoint) ==
    /\ api
    /\ Arrives(c)
    /\ RequestsServed
    /\ \E url \in FieldValues \ {None}, sitekey \in FieldValues \ {None} :
         /\ request' = [request EXCEPT ![c] = Request(endpoint, url, sitekey)]
         /\ IF solver = None
              THEN Refuse(c, 503)
              ELSE SolveEnter(c, url, sitekey)
    /\ UNCHANGED <<solverVars, histVars, proxy>>

\* GET /api/solve
solve_get(c) == HandleSolve(c, "GET /api/solve")

\* POST /api/solve
solve_post(c) == HandleSolve(c, "POST /api/solve")

\* A waiting get() whose future was resolved runs again: it takes a slot if
\* the pool still has one, and goes back to waiting otherwise.
GetResume(c) ==
    /\ pc[c] = "get"
    /\ Len(woken) > 0 /\ c = Head(woken)
    /\ IF Len(browser_pool) > 0
         THEN /\ browser_pool' = Tail(browser_pool)
              /\ slot' = [slot EXCEPT ![c] = Head(browser_pool)]
              /\ pc' = [pc EXCEPT ![c] = "setup_context"]
              /\ getters' = getters
         ELSE /\ getters' = Append(getters, c)
              /\ UNCHANGED <<browser_pool, slot, pc>>
    /\ woken' = Tail(woken)
    /\ UNCHANGED <<context, attempt, result, http>>
    /\ UNCHANGED <<solverVars, histVars, proxy, request>>

\* A browser operation of position `at` returns (the call moves on to `next`,
\* its context becoming `nctx`) or raises (the except branch runs with msg).
BrowserStep(c, at, next, nctx, msg) ==
    /\ pc[c] = at
    /\ \E ok \in BOOLEAN :
         IF ok
           THEN /\ SetCall(c, next, nctx, 0, result[c])
                /\ UNCHANGED <<slot, poolVars>>
           ELSE SolveExcept(c, msg)
    /\ UNCHANGED <<solverVars, histVars, proxy, request>>

\* context = await self._setup_context(browser): the proxy file is looked for
\* (a missing one is no error), a line chosen at random and parsed, and the
\* context created; an exception goes to solve()'s except branch.
SetupContext(c) ==
    /\ pc[c] = "setup_context"
    /\ \E file \in ProxyFiles, line \in ProxyLines, ok \in BOOLEAN :
         /\ file.lines # {} => line \in file.lines
         /\ IF ok
              THEN /\ SetCall(c, "new_page", "open", 0, result[c])
                   /\ proxy' = [proxy EXCEPT ![c] = ContextProxy(file, line)]
                   /\ UNCHANGED <<slot, poolVars>>
              ELSE /\ SolveExcept(c, "new_context failed")
                   /\ proxy' = proxy
    /\ UNCHANGED <<solverVars, histVars, request>>

\* page = await context.new_page()
NewPage(c) == BrowserStep(c, "new_page", "goto", "open", "new_page failed")

\* page.route(...) and page.goto(...)
Goto(c) == BrowserStep(c, "goto", "wait_selector", "open", "goto failed")

\* page.wait_for_selector(".cf-turnstile"), any failure re-raised as
\* "Turnstile failed to load"; then the 2 s sleep.
WaitSelector(c) ==
    BrowserStep(c, "wait_selector", "click", "open", "Turnstile failed to load")

\* The click on the widget: if the direct click raises, the script-level click
\* is tried, and an exception of that one leaves _solve_on_page.
Click(c) ==
    /\ pc[c] = "click"
    /\ \E clickOk \in BOOLEAN, scriptOk \in BOOLEAN :
         IF clickOk \/ scriptOk
           THEN /\ SetCall(c, "poll", "open", 0, result[c])
                /\ UNCHANGED <<slot, poolVars>>
           ELSE SolveExcept(c, "evaluate failed")
    /\ UNCHANGED <<solverVars, histVars, proxy, request>>

\* Faulty variant of TokenFound: `if token:`, without the strip().
TokenFound_NoStrip(tok) == ~Falsy(tok)

\* `if token and token.strip()`: the value read counts as the token.
TokenFound(tok) == ~Falsy(tok) /\ Strip(tok) # ""

\* Faulty variant of PollAgain: the loop gives up one attempt early.
PollAgain_OneShort(a) == a + 2 < PollAttempts

\* The polling loop `for attempt in range(30)` runs while this holds.
PollAgain(a) == a + 1 < PollAttempts

Raises == "<raises>"

\* One iteration of the polling loop: read the hidden field; a token ends
\* _solve_on_page with the success result (solve() then awaits
\* context.close()); otherwise sleep, click again on every 5th attempt
\* (a failing click is swallowed) and go on; after the last attempt
\* raise the timeout, which solve()'s except branch turns into a result.
Poll(c) ==
    /\ pc[c] = "poll"
    /\ \E r \in ReadValues \cup {Raises}, clickOk \in BOOLEAN :
         /\ attempt[c] % 5 # 0 \/ r = Raises \/ TokenFound(r) => clickOk
         /\ firstNonEmpty' = [firstNonEmpty EXCEPT ![c] =
                IF @ = None /\ r # Raises /\ ~Falsy(r) THEN r ELSE @]
         /\ firstNonBlank' = [firstNonBlank EXCEPT ![c] =
                IF @ = None /\ r # Raises /\ ~Falsy(r) /\ Strip(r) # "" THEN r ELSE @]
         /\ lateRead' = [lateRead EXCEPT ![c] = @ \/ firstNonBlank[c] # None]
         /\ IF r # Raises /\ TokenFound(r)
              THEN /\ SetCall(c, "close", "open", 0, SuccessResult(r))
                   /\ reads' = [reads EXCEPT ![c] = 0]
                   /\ UNCHANGED <<slot, poolVars>>
              ELSE IF PollAgain(attempt[c])
                THEN /\ SetCall(c, "poll", "open", attempt[c] + 1, result[c])
                     /\ reads' = [reads EXCEPT ![c] = @ + 1]
                     /\ UNCHANGED <<slot, poolVars>>
                ELSE /\ SolveExcept(c, TimeoutMsg)
                     /\ reads' = [reads EXCEPT ![c] = 0]
    /\ UNCHANGED <<solverVars, stranded, proxy, request>>

\* await context.close(), then the slot goes back and the result is returned;
\* if close() raises, the except branch runs.
Close(c) ==
    /\ pc[c] = "close"
    /\ \E ok \in BOOLEAN :
         IF ok THEN SolveReturn(c) ELSE SolveExcept(c, "close failed")
    /\ UNCHANGED <<solverVars, histVars, proxy, request>>

-----------------------------------------------------------------------------
(* cleanup() of the Solver Core *)

\* No solve() call is between its entry and its return.
NoSolveInFlight == \A c \in Calls : pc[c] \in {"idle", "done"}

Arrived == Cardinality({c \in Calls : pc[c] # "idle"})

\* Faulty variant of CleanupResume: with the pool drained, the browsers that
\* calls hold are closed as well before the engine is stopped.
CleanupResume_ClosesHeld ==
    IF Len(browser_pool) > 0
      THEN /\ browser_pool' = Tail(browser_pool)
           /\ closing' = Head(browser_pool)
           /\ closes' = [closes EXCEPT ![Head(browser_pool)] = @ + 1]
           /\ cleanup_pc' = "closing"
           /\ UNCHANGED <<getters, woken, stops, cleanups>>
      ELSE /\ closing' = 0
           /\ closes' = [b \in DOMAIN closes |->
                           IF \E c \in Calls : slot[c] = b THEN closes[b] + 1
                                                            ELSE closes[b]]
           /\ UNCHANGED poolVars
           /\ IF playwright # "unset"
                THEN /\ cleanup_pc' = "stopping"
                     /\ stops' = stops + 1
                     /\ cleanups' = cleanups
                ELSE /\ cleanup_pc' = "done"
                     /\ stops' = stops
                     /\ cleanups' = cleanups + 1

\* cleanup() from the head of its loop to its next suspension: with a browser
\* in the pool, take it and await its close(); with none, await
\* playwright.stop() if the solver has that attribute, and return otherwise.
CleanupResume ==
    IF Len(browser_pool) > 0
      THEN /\ browser_pool' = Tail(browser_pool)
           /\ closing' = Head(browser_pool)
           /\ closes' = [closes EXCEPT ![Head(browser_pool)] = @ + 1]
           /\ cleanup_pc' = "closing"
           /\ UNCHANGED <<getters, woken, stops, cleanups>>
      ELSE /\ closing' = 0
           /\ UNCHANGED <<poolVars, closes>>
           /\ IF playwright # "unset"
                THEN /\ cleanup_pc' = "stopping"
                     /\ stops' = stops + 1
                     /\ cleanups' = cleanups
                ELSE /\ cleanup_pc' = "done"
                     /\ stops' = stops
                     /\ cleanups' = cleanups + 1

\* cleanup() from its entry to its first suspension.
CleanupEnter ==
    /\ drain' = [quiet |-> NoSolveInFlight, arrived |-> Arrived,
                 found |-> {browser_pool[i] : i \in 1..Len(browser_pool)},
                 failed |-> {}]
    /\ CleanupResume

\* The solver's owner awaits cleanup(), after initialize() returned or raised.
cleanup ==
    /\ ~api
    /\ init_pc \in {"ready", "failed"}
    /\ cleanup_pc \in {"idle", "done", "raised"}
    /\ cleanups < MaxCleanups
    /\ CleanupEnter
    /\ UNCHANGED <<api, solver, lifespan_pc, thread_count, browser_type, playwright,
                   init_pc, init_i, proxy_support, setupVars>>
    /\ UNCHANGED <<callVars, histVars, proxy, request>>

\* lifespan() after its yield, when the server shuts down (the requests in
\* flight have been answered by then): `if solver: await solver.cleanup()`.
\* A lifespan() whose startup raised never gets here.
LifespanShutdown ==
    /\ api
    /\ lifespan_pc = "serving"
    /\ NoSolveInFlight
    /\ lifespan_pc' = "shutdown"
    /\ IF solver # None
         THEN CleanupEnter
         ELSE UNCHANGED <<cleanupVars, poolVars>>
    /\ UNCHANGED <<api, solver, thread_count, browser_type, playwright,
                   init_pc, init_i, proxy_support, setupVars>>
    /\ UNCHANGED <<callVars, histVars, proxy, request>>

\* Faulty variant of CloseOutcome: a close() that raises ends cleanup().
CloseOutcome_Raises(ok) ==
    IF ok
      THEN CleanupResume
      ELSE /\ cleanup_pc' = "raised"
           /\ closing' = 0
           /\ cleanups' = cleanups + 1
           /\ UNCHANGED <<poolVars, closes, stops>>

\* `except: pass` around get() and close(): whether close() returned or
\* raised, the loop goes on.
CloseOutcome(ok) == CleanupResume

\* await browser.close() returns or raises.
CleanupClose ==
    /\ cleanup_pc = "closing"
    /\ \E ok \in BOOLEAN :
         /\ CloseOutcome(ok)
         /\ drain' = [drain EXCEPT !.failed = IF ok THEN @ ELSE @ \cup {closing}]
    /\ UNCHANGED <<api, solver, lifespan_pc, thread_count, browser_type, playwright,
                   init_pc, init_i, proxy_support, setupVars>>
    /\ UNCHANGED <<callVars, histVars, proxy, request>>

\* await self.playwright.stop() returns, and cleanup() with it, or raises,
\* and the exception leaves cleanup().
CleanupStop ==
    /\ cleanup_pc = "stopping"
    /\ \E ok \in BOOLEAN : cleanup_pc' = IF ok THEN "done" ELSE "raised"
    /\ cleanups' = cleanups + 1
    /\ UNCHANGED <<closing, closes, stops, drain>>
    /\ UNCHANGED <<api, solver, lifespan_pc, thread_count, browser_type, playwright,
                   init_pc, init_i, proxy_support, setupVars>>
    /\ UNCHANGED <<poolVars, callVars, histVars, proxy, request>>

-----------------------------------------------------------------------------
(* GET /status and GET /health of the API host *)

\* Faulty variant of SolverStatus: `initialized` computed without the `not`.
SolverStatus_Inverted ==
    [NoResult EXCEPT !.initialized = Len(browser_pool) = 0,
                     !.pool_size = Len(browser_pool)]

\* Faulty variant of SolverStatus: the status of the pool as it was built.
SolverStatus_Static ==
    [NoResult EXCEPT !.initialized = init_pc = "ready",
                     !.pool_size = thread_count]

\* TurnstileSolver.get_status(): computed from the pool as it is now.
SolverStatus ==
    [NoResult EXCEPT !.initialized = Len(browser_pool) > 0,
                     !.pool_size = Len(browser_pool)]

\* An answered request that made no solve() call.
Answer(c, endpoint, code, body) ==
    /\ request' = [request EXCEPT ![c] = Request(endpoint, None, None)]
    /\ pc' = [pc EXCEPT ![c] = "done"]
    /\ http' = [http EXCEPT ![c] = code]
    /\ result' = [result EXCEPT ![c] = body]
    /\ UNCHANGED <<slot, context, attempt, poolVars, solverVars, histVars, proxy>>

get_status(c) ==
    /\ api
    /\ Arrives(c)
    /\ RequestsServed
    /\ IF solver = None
         THEN Answer(c, "GET /status", 503, [NoResult EXCEPT !.message = "Solver not initialized"])
         ELSE Answer(c, "GET /status", 200, SolverStatus)

health_check(c) ==
    /\ api
    /\ Arrives(c)
    /\ RequestsServed
    /\ IF solver = None
         THEN Answer(c, "GET /health", 200, [NoResult EXCEPT !.status = "down",
                                              !.message = "Solver not initialized"])
         ELSE IF SolverStatus.initialized
           THEN Answer(c, "GET /health", 200, [NoResult EXCEPT !.status = "up",
                                                !.pool_size = SolverStatus.pool_size])
           ELSE Answer(c, "GET /health", 200, [NoResult EXCEPT !.status = "down",
                                                !.message = "Solver pool empty"])

-----------------------------------------------------------------------------
(* load_config() of the API host *)

\* JSON values: an atom (anything that is not an object, by its text) or an
\* object, a function from its keys.
EmptyObject == [k \in {} |-> None]
Atom(text) == [object |-> FALSE, atom |-> text, fields |-> EmptyObject]
Object(fields) == [object |-> TRUE, atom |-> "", fields |-> fields]

\* default_config
DefaultApi == [enabled |-> "false", host |-> "0.0.0.0", port |-> "8000"]
DefaultConfig ==
    [headless |-> Atom("true"), thread |-> Atom("2"),
     browser_type |-> Atom("chromium"), proxy_support |-> Atom("false"),
     api |-> Object(DefaultApi)]

\* The configuration files load_config() is tried with: no file, a file
\* that cannot be read, one that is not JSON, a JSON list, and JSON objects
\* with any of these keys, `api` being an object or not.
PlainKeys == {"thread", "headless", "note"}
PlainValue(k) ==
    IF k = "thread" THEN Atom("4") ELSE IF k = "headless" THEN Atom("false") ELSE Atom("x")
ApiKeys == {"port", "enabled", "tls"}
ApiValue(k) == IF k = "port" THEN "9000" ELSE IF k = "enabled" THEN "true" ELSE "on"
ApiValues == {Atom("off")} \cup {Object([k \in K |-> ApiValue(k)]) : K \in SUBSET ApiKeys}
FileObjects ==
    {[k \in K |-> PlainValue(k)] : K \in SUBSET PlainKeys}
    \cup {[k \in K \cup {"api"} |-> IF k = "api" THEN a ELSE PlainValue(k)] :
            K \in SUBSET PlainKeys, a \in ApiValues}
ConfigFile(state, object, fields) == [state |-> state, object |-> object, fields |-> fields]
AbsentFile == ConfigFile("absent", FALSE, EmptyObject)
ConfigFiles ==
    {AbsentFile, ConfigFile("unreadable", FALSE, EmptyObject),
     ConfigFile("invalid", FALSE, EmptyObject), ConfigFile("json", FALSE, EmptyObject)}
    \cup {ConfigFile("json", TRUE, f) : f \in FileObjects}

\* {**d, **f}
Overlay(d, f) ==
    [k \in DOMAIN d \cup DOMAIN f |-> IF k \in DOMAIN f THEN f[k] ELSE d[k]]

\* Faulty variant of Merge: the file's api object replaces the default one.
Merge_Shallow(cfg) == Overlay(DefaultConfig, cfg)

\* merged = {**default_config, **config}, and with 'api' in config
\* merged['api'] = {**default_config['api'], **config['api']}
Merge(cfg) ==
    IF "api" \in DOMAIN cfg
      THEN [Overlay(DefaultConfig, cfg) EXCEPT
              !["api"] = Object(Overlay(DefaultApi, cfg["api"].fields))]
      ELSE Overlay(DefaultConfig, cfg)

\* The exception the body of the try raises for this file, or None: open()
\* and json.load() fail on a missing, unreadable or malformed file, and a
\* `**` of something that is not a mapping raises TypeError.
LoadError(file) ==
    IF file.state = "absent" THEN "FileNotFoundError"
    ELSE IF file.state = "unreadable" THEN "OSError"
    ELSE IF file.state = "invalid" THEN "JSONDecodeError"
    ELSE IF ~file.object THEN "TypeError"
    ELSE IF "api" \in DOMAIN file.fields /\ ~file.fields["api"].object THEN "TypeError"
    ELSE None

Unloaded == [loaded |-> FALSE, raised |-> FALSE, value |-> EmptyObject]

\* Faulty variant of LoadConfig: a file that cannot be merged keeps what
\* the top-level overlay gave.
LoadConfig_Partial(file) ==
    IF file.state = "json" /\ file.object /\ LoadError(file) # None
      THEN [loaded |-> TRUE, raised |-> FALSE, value |-> Overlay(DefaultConfig, file.fields)]
    ELSE IF LoadError(file) # None
      THEN [loaded |-> TRUE, raised |-> FALSE, value |-> DefaultConfig]
    ELSE [loaded |-> TRUE, raised |-> FALSE, value |-> Merge(file.fields)]

\* What `except FileNotFoundError` and `except Exception` catch.
Caught == {"FileNotFoundError", "OSError", "JSONDecodeError", "TypeError"}

\* load_config(): both except clauses return default_config, which the try
\* body never changes; an exception neither clause catches would leave it.
LoadConfig(file) ==
    IF LoadError(file) = None
      THEN [loaded |-> TRUE, raised |-> FALSE, value |-> Merge(file.fields)]
    ELSE IF LoadError(file) \in Caught
      THEN [loaded |-> TRUE, raised |-> FALSE, value |-> DefaultConfig]
    ELSE [loaded |-> TRUE, raised |-> TRUE, value |-> EmptyObject]

\* config = load_config()
load_config ==
    /\ ~config.loaded
    /\ config' = LoadConfig(config_file)
    /\ UNCHANGED <<ncalls, config_file, args, launch, cli>>
    /\ UNCHANGED <<api, solver, lifespan_pc, thread_count, browser_type, playwright,
                   init_pc, init_i, proxy_support, cleanupVars>>
    /\ UNCHANGED <<poolVars, callVars, histVars, proxy, request>>

-----------------------------------------------------------------------------
(* The launcher of the Legacy Server (backup.py run as a script) *)

\* The command lines the launcher is tried with; --port is one int() accepts.
LauncherTypes == {"chromium", "chrome", "msedge", "camoufox", "firefox"}
Arguments ==
    [headless : BOOLEAN, useragent : {None, "", "UA/1.0"},
     browser_type : LauncherTypes, thread : 1..MaxThread, proxy : BOOLEAN]
NoArguments ==
    [headless |-> FALSE, useragent |-> None, browser_type |-> "chromium",
     thread |-> 1, proxy |-> FALSE]

\* browser_types
LegacyBrowserTypes == {"chromium", "chrome", "msedge", "camoufox"}

\* Faulty variant of LaunchError: no exemption for camoufox.
LaunchError_NoExemption(a) ==
    IF a.browser_type \notin LegacyBrowserTypes THEN "Unknown browser type"
    ELSE IF a.headless = TRUE /\ a.useragent = None
      THEN "You must specify a User-Agent for Turnstile Solver or use camoufox"
    ELSE None

\* The error the launcher logs for these arguments, or None.  Of the allowed
\* types only "camoufox" has "camoufox" as a substring.
LaunchError(a) ==
    IF a.browser_type \notin LegacyBrowserTypes THEN "Unknown browser type"
    ELSE IF a.headless = TRUE /\ a.useragent = None /\ a.browser_type # "camoufox"
      THEN "You must specify a User-Agent for Turnstile Solver or use camoufox"
    ELSE None

NotLaunched == [pc |-> "args", log |-> None, server |-> FALSE]

\* The body of `if __name__ == '__main__'`: log and fall through, or
\* create_app() (the server object with its empty pool) and app.run().
LegacyMain ==
    /\ launch.pc = "args"
    /\ IF LaunchError(args) # None
         THEN /\ launch' = [pc |-> "refused", log |-> LaunchError(args), server |-> FALSE]
              /\ UNCHANGED <<solver, lifespan_pc, thread_count, browser_type, proxy_support>>
         ELSE /\ launch' = [pc |-> "running", log |-> None, server |-> TRUE]
              /\ solver' = "obj"
              /\ lifespan_pc' = "startup"
              /\ thread_count' = args.thread
              /\ browser_type' = args.browser_type
              /\ proxy_support' = args.proxy
    /\ UNCHANGED <<ncalls, config_file, config, args, cli>>
    /\ UNCHANGED <<api, playwright, init_pc, init_i, cleanupVars>>
    /\ UNCHANGED <<poolVars, callVars, histVars, proxy, request>>

-----------------------------------------------------------------------------
(* Specifications *)

\* Nothing of the host's start-up and no cleanup() has happened.
InitSetup ==
    /\ config_file = AbsentFile
    /\ config = Unloaded
    /\ args = NoArguments
    /\ launch = NotLaunched
    /\ cli = NoCli
    /\ cleanup_pc = "idle"
    /\ closing = 0
    /\ closes = [b \in 1..MaxThread |-> 0]
    /\ stops = 0
    /\ cleanups = 0
    /\ drain = [quiet |-> TRUE, arrived |-> 0, found |-> {}, failed |-> {}]

InitCalls(pool) ==
    /\ browser_pool = pool
    /\ getters = <<>>
    /\ woken = <<>>
    /\ pc = [c \in Calls |-> "idle"]
    /\ slot = [c \in Calls |-> 0]
    /\ context = [c \in Calls |-> "none"]
    /\ attempt = [c \in Calls |-> 0]
    /\ result = [c \in Calls |-> NoResult]
    /\ http = [c \in Calls |-> 0]
    /\ request = [c \in Calls |-> NoRequest]
    /\ reads = [c \in Calls |-> 0]
    /\ firstNonEmpty = [c \in Calls |-> None]
    /\ firstNonBlank = [c \in Calls |-> None]
    /\ lateRead = [c \in Calls |-> FALSE]
    /\ stranded = [c \in Calls |-> None]
    /\ proxy = [c \in Calls |-> NoProxy]

\* The Solver Core used as a library: a constructed, not yet initialized
\* solver, which n calls will be made on.
InitLibrary(n, threads, types, proxies) ==
    /\ ncalls = n
    /\ InitSetup
    /\ api = FALSE
    /\ solver = "obj"
    /\ lifespan_pc = "none"
    /\ thread_count \in threads
    /\ browser_type \in types
    /\ playwright = "unset"
    /\ init_pc = "new"
    /\ init_i = 0
    /\ proxy_support \in proxies
    /\ InitCalls(<<>>)

Init == InitLibrary(NumCalls, 1..MaxThread, BrowserTypes, {FALSE})

CallStep(c) ==
    \/ GetResume(c)
    \/ SetupContext(c)
    \/ NewPage(c)
    \/ Goto(c)
    \/ WaitSelector(c)
    \/ Click(c)
    \/ Poll(c)
    \/ Close(c)

Next ==
    \/ Initialize
    \/ InitializeLaunch
    \/ \E c \in Calls : solve(c)
    \/ \E c \in Calls : CallStep(c)

Spec == Init /\ [][Next]_vars

\* The API host: no solver yet; the lifespan protocol on or off.
InitHost ==
    /\ ncalls = NumCalls
    /\ InitSetup
    /\ api = TRUE
    /\ solver = None
    /\ lifespan_pc \in {"startup", "off"}
    /\ thread_count \in 1..MaxThread
    /\ browser_type \in BrowserTypes
    /\ playwright = "unset"
    /\ init_pc = "new"
    /\ init_i = 0
    /\ proxy_support = FALSE
    /\ InitCalls(<<>>)

NextHost ==
    \/ LifespanStartup
    \/ InitializeLaunch
    \/ \E c \in Calls : solve_get(c)
    \/ \E c \in Calls : solve_post(c)
    \/ \E c \in Calls : get_status(c)
    \/ \E c \in Calls : health_check(c)
    \/ \E c \in Calls : CallStep(c)

SpecHost == InitHost /\ [][NextHost]_vars

-----------------------------------------------------------------------------
(* The Legacy Server (src/backup.py) *)

\* The exception the proxy block of _solve_turnstile raises for this file and
\* this chosen line, or None: open() of an absent file, a line of neither 3
\* nor 5 fields.
LegacyProxyError(file, line) ==
    IF ~proxy_support THEN None
    ELSE IF ~file.exists THEN "No such file or directory: proxies.txt"
    ELSE IF file.lines = {} THEN None
    ELSE IF FieldCount(line) \in {3, 5} THEN None
    ELSE "Invalid proxy format"

LegacySet(c, npc, nslot, nctx, natt, nres, nhttp) ==
    /\ pc' = [pc EXCEPT ![c] = npc]
    /\ slot' = [slot EXCEPT ![c] = nslot]
    /\ context' = [context EXCEPT ![c] = nctx]
    /\ attempt' = [attempt EXCEPT ![c] = natt]
    /\ result' = [result EXCEPT ![c] = nres]
    /\ http' = [http EXCEPT ![c] = nhttp]

\* Faulty variant of TurnstileResponse: the status ignores the result.
TurnstileResponse_Always200(res) == 200

\* process_turnstile's answer for a result _solve_turnstile returned.
TurnstileResponse(res) == IF res.status = "success" THEN 200 ELSE 422

\* An exception leaves _solve_turnstile: process_turnstile answers 500 with
\* {"status": "error", "error": str(e)}.  Nothing on this path closes the
\* context or puts the browser back: the call keeps its slot for good.
LegacyEscape(c, msg) ==
    /\ LegacySet(c, "done", slot[c], context[c], 0,
                 [NoResult EXCEPT !.status = "error", !.error = msg], 500)
    /\ UNCHANGED poolVars

\* _solve_turnstile from a successful get() to its next suspension: the
\* proxy file is read and the chosen line parsed, outside any try.
LegacyAfterGet(c, index) ==
    \E file \in ProxyFiles, line \in ProxyLines :
        /\ file.lines # {} => line \in file.lines
        /\ proxy' = [proxy EXCEPT ![c] = ContextProxy(file, line)]
        /\ IF LegacyProxyError(file, line) # None
             THEN LegacySet(c, "done", index, "none", 0,
                            [NoResult EXCEPT !.status = "error",
                                             !.error = LegacyProxyError(file, line)], 500)
             ELSE LegacySet(c, "new_context", index, "none", 0, NoResult, 0)

\* _startup / _initialize_browser: start the engine (Chromium family).
LegacyStartup ==
    /\ lifespan_pc = "startup"
    /\ init_pc = "new"
    /\ \E started \in BOOLEAN :
         IF browser_type \in ChromiumFamily /\ ~started
           THEN /\ init_pc' = "failed"
                /\ lifespan_pc' = "failed"
                /\ playwright' = playwright
           ELSE /\ init_pc' = "launch"
                /\ lifespan_pc' = lifespan_pc
                /\ playwright' = IF browser_type \in ChromiumFamily
                                   THEN "started" ELSE playwright
    /\ UNCHANGED <<api, solver, thread_count, browser_type, init_i, proxy_support,
                   setupVars, cleanupVars>>
    /\ UNCHANGED <<poolVars, callVars, histVars, proxy, request>>

\* One iteration of _initialize_browser's loop; no fallback launch here.
LegacyLaunch ==
    /\ init_pc = "launch"
    /\ \E launchOk \in BOOLEAN :
         IF launchOk
           THEN /\ QueuePut(init_i + 1)
                /\ init_i' = init_i + 1
                /\ init_pc' = IF init_i + 1 < thread_count THEN "launch" ELSE "ready"
                /\ lifespan_pc' = IF init_i + 1 < thread_count THEN lifespan_pc ELSE "serving"
           ELSE /\ init_pc' = "failed"
                /\ lifespan_pc' = "failed"
                /\ UNCHANGED <<init_i, poolVars>>
    /\ UNCHANGED <<api, solver, thread_count, browser_type, playwright, proxy_support,
                   setupVars, cleanupVars>>
    /\ UNCHANGED <<callVars, histVars, proxy, request>>

\* GET /turnstile: 400 for a missing or empty url / sitekey, otherwise
\* _solve_turnstile up to its first suspension.
process_turnstile(c) ==
    /\ Arrives(c)
    /\ lifespan_pc = "serving"
    /\ \E url \in FieldValues, sitekey \in FieldValues :
         /\ request' = [request EXCEPT ![c] = Request("GET /turnstile", url, sitekey)]
         /\ IF Falsy(url) \/ Falsy(sitekey)
              THEN /\ LegacySet(c, "done", 0, "none", 0, ValidationError, 400)
                   /\ UNCHANGED <<poolVars, proxy>>
              ELSE IF Len(browser_pool) > 0
                THEN /\ browser_pool' = Tail(browser_pool)
                     /\ LegacyAfterGet(c, Head(browser_pool))
                     /\ UNCHANGED <<getters, woken>>
                ELSE /\ getters' = Append(getters, c)
                     /\ LegacySet(c, "get", 0, "none", 0, NoResult, 0)
                     /\ UNCHANGED <<browser_pool, woken, proxy>>
    /\ UNCHANGED <<solverVars, histVars>>

LegacyGetResume(c) ==
    /\ pc[c] = "get"
    /\ Len(woken) > 0 /\ c = Head(woken)
    /\ woken' = Tail(woken)
    /\ IF Len(browser_pool) > 0
         THEN /\ browser_pool' = Tail(browser_pool)
              /\ LegacyAfterGet(c, Head(browser_pool))
              /\ getters' = getters
         ELSE /\ getters' = Append(getters, c)
              /\ UNCHANGED <<browser_pool, callVars, proxy>>
    /\ UNCHANGED <<solverVars, histVars, request>>

\* browser.new_context(...) and context.new_page(), both before the try: an
\* exception of either leaves _solve_turnstile.
LegacyNewContext(c) ==
    /\ pc[c] = "new_context"
    /\ \E ok \in BOOLEAN :
         IF ok
           THEN /\ LegacySet(c, "new_page", slot[c], "open", 0, NoResult, 0)
                /\ UNCHANGED poolVars
           ELSE LegacyEscape(c, "new_context failed")
    /\ UNCHANGED <<solverVars, histVars, proxy, request>>

LegacyNewPage(c) ==
    /\ pc[c] = "new_page"
    /\ \E ok \in BOOLEAN :
         IF ok
           THEN /\ LegacySet(c, "goto", slot[c], "open", 0, NoResult, 0)
                /\ UNCHANGED poolVars
           ELSE LegacyEscape(c, "new_page failed")
    /\ UNCHANGED <<solverVars, histVars, proxy, request>>

\* The outer `except Exception as e`: close the context, put the browser
\* back, return the error result.  If context.close() raises here, the
\* exception leaves _solve_turnstile before the put.
LegacyExcept(c, msg) ==
    \E closeOk \in BOOLEAN :
        IF closeOk
          THEN /\ QueuePut(slot[c])
               /\ LegacySet(c, "done", 0, "closed", 0, ErrorResult(msg),
                            TurnstileResponse(ErrorResult(msg)))
          ELSE LegacyEscape(c, "close failed")

\* page.route, page.goto and the resize of the widget, inside the try.
LegacyGoto(c) ==
    /\ pc[c] = "goto"
    /\ \E ok \in BOOLEAN :
         IF ok
           THEN /\ LegacySet(c, "poll", slot[c], "open", 0, NoResult, 0)
                /\ UNCHANGED poolVars
           ELSE LegacyExcept(c, "goto failed")
    /\ UNCHANGED <<solverVars, histVars, proxy, request>>

\* `if attempt < 14` of the inner except: sleep and go on with the loop.
LegacyRetry(a) == a < LegacyAttempts - 1

\* One iteration of `for attempt in range(15)`.  The read, the click after an
\* empty read and the close after a non-empty read are all inside the inner
\* try: when one raises, the loop goes on while attempt < 14 and the timeout
\* is raised otherwise.  An empty read with a good click goes on to the next
\* iteration, and the timeout is raised after the last one.
LegacyPoll(c) ==
    /\ pc[c] = "poll"
    /\ \E r \in (ReadValues \ {None}) \cup {Raises}, ok \in BOOLEAN :
         /\ r = Raises => ok
         /\ firstNonEmpty' = [firstNonEmpty EXCEPT ![c] =
                IF @ = None /\ r # Raises /\ r # "" THEN r ELSE @]
         /\ IF r # Raises /\ r # "" /\ ok
              THEN /\ QueuePut(slot[c])
                   /\ LegacySet(c, "done", 0, "closed", 0, SuccessResult(r),
                                TurnstileResponse(SuccessResult(r)))
              ELSE IF (r = "" /\ ok /\ attempt[c] + 1 < LegacyAttempts)
                      \/ ((r = Raises \/ ~ok) /\ LegacyRetry(attempt[c]))
                THEN /\ LegacySet(c, "poll", slot[c], "open", attempt[c] + 1, NoResult, 0)
                     /\ UNCHANGED poolVars
                ELSE LegacyExcept(c, LegacyTimeoutMsg)
    /\ UNCHANGED <<solverVars, reads, firstNonBlank, lateRead, stranded, proxy, request>>

InitLegacy ==
    /\ ncalls = NumCalls
    /\ InitSetup
    /\ api = TRUE
    /\ solver = "obj"
    /\ lifespan_pc = "startup"
    /\ thread_count \in 1..MaxThread
    /\ browser_type \in {"chromium", "camoufox"}
    /\ playwright = "unset"
    /\ init_pc = "new"
    /\ init_i = 0
    /\ proxy_support \in BOOLEAN
    /\ InitCalls(<<>>)

LegacyCallStep(c) ==
    \/ LegacyGetResume(c)
    \/ LegacyNewContext(c)
    \/ LegacyNewPage(c)
    \/ LegacyGoto(c)
    \/ LegacyPoll(c)

NextLegacy ==
    \/ LegacyStartup
    \/ LegacyLaunch
    \/ \E c \in Calls : process_turnstile(c)
    \/ \E c \in Calls : LegacyCallStep(c)

SpecLegacy == InitLegacy /\ [][NextLegacy]_vars

\* The API host from startup to shutdown.
NextShutdown ==
    \/ NextHost
    \/ LifespanShutdown
    \/ CleanupClose
    \/ CleanupStop

SpecShutdown == InitHost /\ [][NextShutdown]_vars

-----------------------------------------------------------------------------
(* CLI mode of the host: run_cli() *)

\* Faulty variant of CliFinally: the cleanup sits in the KeyboardInterrupt
\* clause instead of a finally.
CliFinally_InterruptOnly(cause) ==
    IF cause = "KeyboardInterrupt"
      THEN /\ cli' = [cli EXCEPT !.pc = "cleanup", !.exit = cause]
           /\ CleanupEnter
      ELSE /\ cli' = [cli EXCEPT !.pc = "exited", !.exit = cause]
           /\ UNCHANGED <<cleanupVars, poolVars>>

\* The try statement is left with `cause` (caught and printed by one of the
\* except clauses): `finally: await solver_instance.cleanup()`.
CliFinally(cause) ==
    /\ cli' = [cli EXCEPT !.pc = "cleanup", !.exit = cause]
    /\ CleanupEnter

\* run_cli() from its entry into initialize().
run_cli ==
    /\ ~api
    /\ cli.pc = "start"
    /\ \E started \in BOOLEAN : InitializeEnter(started)
    /\ cli' = [cli EXCEPT !.pc = "initialize"]
    /\ UNCHANGED <<api, solver, lifespan_pc, thread_count, browser_type, proxy_support,
                   ncalls, config_file, config, args, launch, cleanupVars>>
    /\ UNCHANGED <<poolVars, callVars, histVars, proxy, request>>

\* initialize() has returned: print the status and the hints and start the
\* idle loop; or it has raised: `except Exception`, then the finally.
CliInitialized ==
    /\ cli.pc = "initialize"
    /\ init_pc \in {"ready", "failed"}
    /\ IF init_pc = "ready"
         THEN /\ cli' = [cli EXCEPT !.pc = "idle"]
              /\ UNCHANGED <<cleanupVars, poolVars>>
         ELSE CliFinally("initialize() raised")
    /\ UNCHANGED <<api, solver, lifespan_pc, thread_count, browser_type, playwright,
                   init_pc, init_i, proxy_support,
                   ncalls, config_file, config, args, launch>>
    /\ UNCHANGED <<callVars, histVars, proxy, request>>

\* `while True: await asyncio.sleep(1)`: the sleep returns, or the operator's
\* interrupt or some exception ends the loop.
CliSleep ==
    /\ cli.pc = "idle"
    /\ \E outcome \in {"returns", "KeyboardInterrupt", "Exception"} :
         IF outcome = "returns"
           THEN /\ cli.ticks < MaxTicks
                /\ cli' = [cli EXCEPT !.ticks = @ + 1]
                /\ UNCHANGED <<cleanupVars, poolVars>>
           ELSE CliFinally(outcome)
    /\ UNCHANGED <<api, solver, lifespan_pc, thread_count, browser_type, playwright,
                   init_pc, init_i, proxy_support,
                   ncalls, config_file, config, args, launch>>
    /\ UNCHANGED <<callVars, histVars, proxy, request>>

\* cleanup() has returned or raised: run_cli() ends.
CliExit ==
    /\ cli.pc = "cleanup"
    /\ cleanup_pc \in {"done", "raised"}
    /\ cli' = [cli EXCEPT !.pc = "exited"]
    /\ UNCHANGED <<api, solver, lifespan_pc, thread_count, browser_type, playwright,
                   init_pc, init_i, proxy_support,
                   ncalls, config_file, config, args, launch, cleanupVars>>
    /\ UNCHANGED <<poolVars, callVars, histVars, proxy, request>>

\* CLI mode: main() calls run_cli(); nothing calls solve().
InitCli ==
    /\ ncalls = 0
    /\ config_file = AbsentFile
    /\ config = Unloaded
    /\ args = NoArguments
    /\ launch = NotLaunched
    /\ cli = [NoCli EXCEPT !.pc = "start"]
    /\ cleanup_pc = "idle"
    /\ closing = 0
    /\ closes = [b \in 1..MaxThread |-> 0]
    /\ stops = 0
    /\ cleanups = 0
    /\ drain = [quiet |-> TRUE, arrived |-> 0, found |-> {}, failed |-> {}]
    /\ api = FALSE
    /\ solver = "obj"
    /\ lifespan_pc = "none"
    /\ thread_count \in 1..MaxThread
    /\ browser_type \in BrowserTypes
    /\ playwright = "unset"
    /\ init_pc = "new"
    /\ init_i = 0
    /\ proxy_support = FALSE
    /\ InitCalls(<<>>)

NextCli ==
    \/ run_cli
    \/ InitializeLaunch
    \/ CliInitialized
    \/ CliSleep
    \/ CleanupClose
    \/ CleanupStop
    \/ CliExit

SpecCli == InitCli /\ [][NextCli]_vars

\* The solver with its owner's cleanup() calls next to the solve() calls.
InitCleanup == InitLibrary(NumCalls, 1..MaxThread, BrowserTypes, {FALSE})

NextCleanup ==
    \/ Next
    \/ cleanup
    \/ CleanupClose
    \/ CleanupStop

SpecCleanup == InitCleanup /\ [][NextCleanup]_vars

\* Both programs with proxy support on or off.
InitProxy ==
    \/ InitLibrary(NumCalls, {1}, {"chromium"}, BOOLEAN)
    \/ InitLegacy

NextProxy ==
    \/ ~api /\ Next
    \/ api /\ NextLegacy

SpecProxy == InitProxy /\ [][NextProxy]_vars

\* An initialized solver with one slot, and callers queueing for it.
InitQueue ==
    /\ ncalls = QueueCalls
    /\ InitSetup
    /\ api = FALSE
    /\ solver = "obj"
    /\ lifespan_pc = "none"
    /\ thread_count = 1
    /\ browser_type = "chromium"
    /\ playwright = "started"
    /\ init_pc = "ready"
    /\ init_i = 1
    /\ proxy_support = FALSE
    /\ InitCalls(<<1>>)

NextQueue ==
    \/ \E c \in Calls : solve(c)
    \/ \E c \in Calls : CallStep(c)

SpecQueue == InitQueue /\ [][NextQueue]_vars

\* load_config() on every configuration file.
InitConfig ==
    /\ ncalls = 0
    /\ config_file \in ConfigFiles
    /\ config = Unloaded
    /\ args = NoArguments
    /\ launch = NotLaunched
    /\ cli = NoCli
    /\ cleanup_pc = "idle"
    /\ closing = 0
    /\ closes = [b \in 1..MaxThread |-> 0]
    /\ stops = 0
    /\ cleanups = 0
    /\ drain = [quiet |-> TRUE, arrived |-> 0, found |-> {}, failed |-> {}]
    /\ api = FALSE
    /\ solver = None
    /\ lifespan_pc = "none"
    /\ thread_count = 0
    /\ browser_type = None
    /\ playwright = "unset"
    /\ init_pc = "new"
    /\ init_i = 0
    /\ proxy_support = FALSE
    /\ InitCalls(<<>>)

SpecConfig == InitConfig /\ [][load_config]_vars

\* The launcher on every command line.
InitLauncher ==
    /\ ncalls = 0
    /\ config_file = AbsentFile
    /\ config = Unloaded
    /\ args \in Arguments
    /\ launch = NotLaunched
    /\ cli = NoCli
    /\ cleanup_pc = "idle"
    /\ closing = 0
    /\ closes = [b \in 1..MaxThread |-> 0]
    /\ stops = 0
    /\ cleanups = 0
    /\ drain = [quiet |-> TRUE, arrived |-> 0, found |-> {}, failed |-> {}]
    /\ api = TRUE
    /\ solver = None
    /\ lifespan_pc = "none"
    /\ thread_count = 0
    /\ browser_type = None
    /\ playwright = "unset"
    /\ init_pc = "new"
    /\ init_i = 0
    /\ proxy_support = FALSE
    /\ InitCalls(<<>>)

SpecLauncher == InitLauncher /\ [][LegacyMain]_vars

\* Every coroutine that can run is run by the event loop.
SpecFair == Spec /\ \A c \in 1..NumCalls : WF_vars(CallStep(c))

-----------------------------------------------------------------------------
(* Properties *)

\* The calls between slot acquisition and slot release.
InFlight == {c \in Calls : slot[c] # 0}

Range(q) == {q[i] : i \in 1..Len(q)}

AllCompleted == \A c \in Calls : pc[c] = "done"

\* C1: after initialize() with thread_count = N, at most N solve() calls hold
\* a slot at any instant; a call acquires a slot only by taking it out of the
\* non-empty pool (so with N in flight it proceeds only after a release); and
\* once every call has completed the pool holds exactly N free slots.
C1_AtMostNInFlight ==
    /\ [](/\ Cardinality(InFlight) <= thread_count
          /\ Cardinality(InFlight) = thread_count => browser_pool = <<>>
          /\ init_pc = "ready" /\ AllCompleted => Len(browser_pool) = thread_count)
    /\ [][\A c \in Calls :
            slot[c] = 0 /\ slot'[c] # 0 =>
                /\ Cardinality(InFlight) < thread_count
                /\ Len(browser_pool) > 0
                /\ slot'[c] = Head(browser_pool)
                /\ browser_pool' = Tail(browser_pool)]_vars

\* A call waits in get() while thread_count calls hold the slots.
C1_Witness ==
    /\ init_pc = "ready"
    /\ Cardinality(InFlight) = thread_count
    /\ \E c \in Calls : pc[c] = "get"

\* C2: after initialization free slots + checked-out slots = thread_count in
\* every state (each slot goes back exactly once), no completed call keeps a
\* slot, and every slot a call acquires is eventually put back.
C2_SlotsConserved ==
    /\ [](/\ init_pc = "ready" =>
                Len(browser_pool) + Cardinality(InFlight) = thread_count
          /\ \A c \in Calls : pc[c] = "done" => slot[c] = 0
          /\ \A c, d \in Calls : c # d /\ slot[c] # 0 => slot[c] # slot[d]
          /\ \A c \in Calls : slot[c] # 0 => slot[c] \notin Range(browser_pool))
    /\ \A c \in 1..NumCalls : (slot[c] # 0) ~> (slot[c] = 0 /\ pc[c] = "done")

\* A solve that failed in page creation has completed with its slot back in
\* the pool, and one that failed in context.close() too.
C2_Witness ==
    /\ init_pc = "ready"
    /\ Len(browser_pool) = thread_count
    /\ \E c, d \in Calls :
         /\ pc[c] = "done" /\ result[c] = ErrorResult("new_page failed")
         /\ pc[d] = "done" /\ result[d] = ErrorResult("close failed")

\* The call took a step of its own.
Stepped(c) == pc'[c] # pc[c] \/ attempt'[c] # attempt[c]

NoRequestInFlight == \A c \in Calls : pc[c] \in {"idle", "done"}

\* C3: every _solve_turnstile call of the Legacy Server that acquired a slot
\* has put it back when the call ends, so with no request in flight the pool
\* holds `thread` free slots again.
C3_LegacySlotReturned ==
    /\ \A c \in Calls : pc[c] = "done" => slot[c] = 0
    /\ lifespan_pc = "serving" /\ NoRequestInFlight => Len(browser_pool) = thread_count

\* C4: the polling loop makes one read per attempt and at most 30; a call
\* whose 30th read still finds no token (and none was non-empty) returns the
\* error result "Failed to get Turnstile token after 30 attempts" at that
\* step, with its slot back in the pool; the loop ends without a token no
\* earlier than that.
C4_TimeoutAfter30 ==
    /\ [](\A c \in Calls : pc[c] = "poll" =>
                reads[c] = attempt[c] /\ attempt[c] < PollAttempts)
    /\ [][\A c \in Calls : pc[c] = "poll" /\ Stepped(c) =>
            /\ reads[c] = PollAttempts - 1 /\ firstNonEmpty'[c] = None =>
                  /\ pc'[c] = "done"
                  /\ result'[c] = ErrorResult(TimeoutMsg)
                  /\ slot'[c] = 0
                  /\ slot[c] \in Range(browser_pool')
            /\ pc'[c] = "done" =>
                  /\ reads[c] = PollAttempts - 1
                  /\ result'[c] = ErrorResult(TimeoutMsg)
            /\ reads[c] < PollAttempts - 1 /\ firstNonBlank'[c] = None =>
                  /\ pc'[c] = "poll"
                  /\ reads'[c] = reads[c] + 1]_vars

\* A solve has returned the timeout result after reads that were all empty,
\* absent or raising, and every slot is back in the pool.
C4_Witness ==
    /\ init_pc = "ready"
    /\ Len(browser_pool) = thread_count
    /\ \E c \in Calls :
         /\ pc[c] = "done"
         /\ result[c] = ErrorResult(TimeoutMsg)
         /\ firstNonEmpty[c] = None

\* C5 as stated: once a read has returned a non-empty string, polling is over
\* and solve() returns success with exactly that string.
C5_FirstNonEmptyReturned ==
    \A c \in Calls : firstNonEmpty[c] # None =>
        /\ pc[c] \in {"close", "done"}
        /\ pc[c] = "done" => result[c] = SuccessResult(firstNonEmpty[c])

\* C5 as amended: once a read has returned a string that is non-empty after
\* strip(), no further read is made and the page-solve ends with success and
\* exactly that string; solve() returns that result, or the error result of
\* a failing context.close().  A blank string is never returned as a token.
C5_FirstNonBlankReturned ==
    \A c \in Calls :
        /\ firstNonBlank[c] # None =>
              /\ pc[c] \in {"close", "done"}
              /\ ~lateRead[c]
              /\ pc[c] = "close" => result[c] = SuccessResult(firstNonBlank[c])
              /\ pc[c] = "done" =>
                    result[c] \in {SuccessResult(firstNonBlank[c]),
                                   ErrorResult("close failed")}
        /\ result[c].status = "success" =>
              /\ firstNonBlank[c] # None
              /\ result[c].token = firstNonBlank[c]
              /\ result[c].time

\* A solve read a blank value, went on polling, and returned the token read
\* later.
C5_Witness ==
    \E c \in Calls :
        /\ pc[c] = "done"
        /\ firstNonEmpty[c] = " "
        /\ result[c] = SuccessResult("tokA")

\* C6: a Legacy Server solve whose reads never return a non-empty value makes
\* at most 15 attempts, goes on after an attempt only below index 14, and
\* ends at attempt 14 returning the error result "... after 15 attempts" with
\* the context closed and the browser back in the pool.
C6_LegacyTimeout ==
    /\ [](\A c \in Calls : pc[c] = "poll" => attempt[c] < LegacyAttempts)
    /\ [][\A c \in Calls : pc[c] = "poll" /\ Stepped(c) =>
            /\ pc'[c] = "poll" =>
                  attempt[c] < LegacyAttempts - 1 /\ attempt'[c] = attempt[c] + 1
            /\ pc'[c] = "done" /\ firstNonEmpty'[c] = None =>
                  /\ attempt[c] = LegacyAttempts - 1
                  /\ result'[c] = ErrorResult(LegacyTimeoutMsg)
                  /\ context'[c] = "closed"
                  /\ slot'[c] = 0
                  /\ slot[c] \in Range(browser_pool')]_vars

\* C7: solve() called with url or sitekey missing or empty returns the
\* validation error (no time field) at once, whatever the pool holds, and
\* changes neither the pool nor its waiters; it holds no slot and no context.
C7_ValidationLeavesPool ==
    /\ [](\A c \in Calls :
            /\ pc[c] = "done"
            /\ request[c].endpoint = "solve()"
            /\ Falsy(request[c].url) \/ Falsy(request[c].sitekey)
            => /\ result[c] = ValidationError
               /\ ~result[c].time
               /\ slot[c] = 0
               /\ context[c] = "none")
    /\ [][\A c \in Calls :
            /\ pc[c] = "idle"
            /\ pc'[c] # "idle"
            /\ Falsy(request'[c].url) \/ Falsy(request'[c].sitekey)
            => /\ pc'[c] = "done"
               /\ UNCHANGED poolVars
               /\ slot' = slot
               /\ context' = context]_vars

\* A call with a missing or empty field has completed while every slot is
\* checked out by other solves.
C7_Witness ==
    /\ init_pc = "ready"
    /\ browser_pool = <<>>
    /\ Cardinality(InFlight) = thread_count
    /\ \E c \in Calls :
         /\ pc[c] = "done"
         /\ result[c] = ValidationError
         /\ Falsy(request[c].url) \/ Falsy(request[c].sitekey)

\* C8: GET /turnstile answers 400 with the validation error, holding no slot,
\* when url or sitekey is missing or empty; otherwise 200 exactly for a
\* success result, 422 exactly for an error result the solve routine
\* returned (it carries `time`), 500 exactly when an exception left the
\* routine (the body carries no `time`).
C8_LegacyStatus ==
    \A c \in Calls : pc[c] = "done" /\ request[c].endpoint = "GET /turnstile" =>
        IF Falsy(request[c].url) \/ Falsy(request[c].sitekey)
          THEN /\ http[c] = 400
               /\ result[c] = ValidationError
               /\ slot[c] = 0
               /\ context[c] = "none"
          ELSE /\ http[c] \in {200, 422, 500}
               /\ http[c] = 200 <=> result[c].status = "success"
               /\ http[c] = 422 <=> (result[c].status = "error" /\ result[c].time)
               /\ http[c] = 500 <=> (result[c].status = "error" /\ ~result[c].time)

\* One request was answered 500 and another 422.
C8_Witness ==
    \E c, d \in Calls :
        /\ pc[c] = "done" /\ http[c] = 500
        /\ pc[d] = "done" /\ http[d] = 422 /\ result[d] = ErrorResult(LegacyTimeoutMsg)

SolveEndpoints == {"GET /api/solve", "POST /api/solve"}

\* C9: the HTTP status of /api/solve tells the outcome category: 200 only
\* for a success result, 400 for a missing or empty required field, 422 for
\* a reported solve failure, 503 when there is no solver.
C9_StatusTellsCategory ==
    \A c \in Calls : pc[c] = "done" /\ request[c].endpoint \in SolveEndpoints =>
        /\ http[c] = 200 => result[c].status = "success"
        /\ http[c] = 503 <=> solver = None
        /\ http[c] # 503 /\ (Falsy(request[c].url) \/ Falsy(request[c].sitekey))
              => http[c] = 400
        /\ result[c].status = "error" /\ result[c].time => http[c] = 422

NoSolveIssued == \A c \in Calls : request[c].endpoint \notin SolveEndpoints

\* C10: with no solver constructed GET /status answers 503 and GET /health
\* answers down / "Solver not initialized"; after a successful initialization
\* with thread_count = N and no solve issued, GET /health answers up with
\* pool_size N.
C10_Readiness ==
    \A c \in Calls : pc[c] = "done" =>
        /\ solver = None /\ request[c].endpoint = "GET /status" => http[c] = 503
        /\ solver = None /\ request[c].endpoint = "GET /health" =>
              /\ http[c] = 200
              /\ result[c] = [NoResult EXCEPT !.status = "down",
                                              !.message = "Solver not initialized"]
        /\ init_pc = "ready" /\ NoSolveIssued /\ request[c].endpoint = "GET /health" =>
              /\ http[c] = 200
              /\ result[c] = [NoResult EXCEPT !.status = "up",
                                              !.pool_size = thread_count]

\* After an initialization with two browsers and before any solve, a health
\* request was answered up with pool_size 2.
C10_Witness ==
    /\ init_pc = "ready"
    /\ thread_count = MaxThread
    /\ NoSolveIssued
    /\ \E c \in Calls :
         /\ request[c].endpoint = "GET /health"
         /\ result[c].status = "up"
         /\ result[c].pool_size = MaxThread

\* The latest cleanup() ran with no solve() in flight, from its call on.
Undisturbed == drain.quiet /\ NoSolveInFlight /\ drain.arrived = Arrived

\* C11: a cleanup() that runs with no solve in flight ends with the pool
\* empty and a close() attempted on every browser it found there; a close()
\* that raises does not end cleanup() and the next browser is taken after it;
\* playwright.stop() is called only with the pool drained and only on a
\* started engine.
C11_CleanupDrains ==
    /\ [](cleanup_pc \in {"done", "raised"} /\ Undisturbed =>
            /\ browser_pool = <<>>
            /\ \A b \in drain.found : closes[b] >= 1)
    /\ [][/\ cleanup_pc = "closing" => cleanup_pc' \in {"closing", "stopping", "done"}
          /\ cleanup_pc = "closing" /\ drain' # drain /\ Len(browser_pool) > 0 =>
                /\ cleanup_pc' = "closing"
                /\ closing' = Head(browser_pool)
          /\ stops' # stops =>
                /\ browser_pool = <<>>
                /\ playwright = "started"
                /\ stops' = stops + 1]_vars

\* A cleanup() of two browsers has returned although a close() raised.
C11_Witness ==
    /\ cleanup_pc = "done"
    /\ Undisturbed
    /\ Cardinality(drain.found) = 2
    /\ drain.failed # {}
    /\ stops = 1

\* C12: a cleanup() called after an undisturbed cleanup() has returned, with
\* no solve in flight, returns at once and changes nothing: the pool stays
\* empty, no browser is closed again and playwright.stop() is not called
\* again.
C12_CleanupIdempotent ==
    [][/\ cleanup_pc = "done" /\ Undisturbed
       /\ (cleanup_pc' # cleanup_pc \/ cleanups' # cleanups)
       => /\ cleanup_pc' = "done"
          /\ browser_pool = <<>> /\ browser_pool' = <<>>
          /\ closes' = closes
          /\ stops' = stops]_vars

\* C13: with proxy support on and a line chosen, 3 fields give the raw line
\* as server and no credentials, 5 fields give scheme://host:port with the
\* user and the password, and any other number of fields makes the Legacy
\* Server raise "Invalid proxy format" (before any context exists) while the
\* Solver Core creates its context with no proxy.
C13_ProxyParsing ==
    \A c \in Calls :
        proxy[c].line # <<>> =>
            /\ proxy_support
            /\ Len(proxy[c].line) = 3 =>
                  /\ proxy[c].server = Join(proxy[c].line)
                  /\ proxy[c].username = None /\ proxy[c].password = None
                  /\ result[c].error # "Invalid proxy format"
            /\ Len(proxy[c].line) = 5 =>
                  /\ proxy[c].server = proxy[c].line[1] \o "://" \o proxy[c].line[2]
                                          \o ":" \o proxy[c].line[3]
                  /\ proxy[c].username = proxy[c].line[4]
                  /\ proxy[c].password = proxy[c].line[5]
                  /\ result[c].error # "Invalid proxy format"
            /\ Len(proxy[c].line) \notin {3, 5} =>
                  /\ proxy[c].server = None
                  /\ proxy[c].username = None /\ proxy[c].password = None
                  /\ IF api
                       THEN /\ pc[c] = "done" /\ context[c] = "none"
                            /\ result[c].error = "Invalid proxy format"
                       ELSE /\ context[c] # "none"
                            /\ result[c].error # "Invalid proxy format"

\* Two contexts of the Solver Core: one with the authenticated proxy of a
\* 5-field line, one with no proxy after a 2-field line.
C13_Witness ==
    /\ ~api
    /\ \E c, d \in Calls :
         /\ proxy[c].line = <<"http", "1.2.3.4", "8080", "user", "pass">>
         /\ proxy[c].server = "http://1.2.3.4:8080"
         /\ proxy[c].username = "user" /\ proxy[c].password = "pass"
         /\ context[c] = "closed" /\ result[c].status = "success"
         /\ proxy[d].line = <<"bad", "format">>
         /\ proxy[d].server = None
         /\ context[d] = "open"

\* C14: in both programs a solve that finds proxy support off, or no proxy
\* file, or no non-blank line in it, gets a context with no proxy, and no
\* error comes of the proxy file.
C14_NoProxyFallback ==
    \A c \in Calls :
        /\ ~proxy_support => proxy[c] = NoProxy
        /\ proxy[c].line = <<>> =>
              /\ proxy[c].server = None
              /\ result[c].error # "No such file or directory: proxies.txt"
              /\ proxy[c].looked => ~(pc[c] = "done" /\ context[c] = "none")

\* The file is absent, unreadable, not JSON, or JSON that cannot be merged.
LoadFails ==
    \/ config_file.state \in {"absent", "unreadable", "invalid"}
    \/ ~config_file.object
    \/ "api" \in DOMAIN config_file.fields /\ ~config_file.fields["api"].object

\* C15: when the configuration file is absent, unreadable, not valid JSON,
\* or JSON whose top level or `api` is not an object, load_config() returns
\* exactly the defaults, with nothing of the file merged in, and does not
\* raise.
C15_DefaultsOnFailure ==
    config.loaded /\ LoadFails =>
        /\ ~config.raised
        /\ config.value =
              [headless |-> Atom("true"), thread |-> Atom("2"),
               browser_type |-> Atom("chromium"), proxy_support |-> Atom("false"),
               api |-> Object([enabled |-> "false", host |-> "0.0.0.0", port |-> "8000"])]

\* A file with thread = 4 and an `api` that is not an object has been loaded.
C15_Witness ==
    /\ config.loaded
    /\ config_file.state = "json" /\ config_file.object
    /\ DOMAIN config_file.fields = {"thread", "api"}
    /\ ~config_file.fields["api"].object
    /\ config.value["thread"] = Atom("2")

\* C16: for a file that loads, every top-level key of the file other than
\* `api` has the file's value, every default key the file lacks keeps its
\* default, and `api` is the default api object with the file's api
\* sub-fields laid over it.
C16_MergeOneLevel ==
    config.loaded /\ ~LoadFails =>
        /\ DOMAIN config.value = DOMAIN DefaultConfig \cup DOMAIN config_file.fields
        /\ \A k \in DOMAIN config_file.fields \ {"api"} :
              config.value[k] = config_file.fields[k]
        /\ \A k \in DOMAIN DefaultConfig \ DOMAIN config_file.fields :
              config.value[k] = DefaultConfig[k]
        /\ "api" \in DOMAIN config_file.fields =>
              /\ config.value["api"].object
              /\ DOMAIN config.value["api"].fields =
                    DOMAIN DefaultApi \cup DOMAIN config_file.fields["api"].fields
              /\ \A j \in DOMAIN config_file.fields["api"].fields :
                    config.value["api"].fields[j] = config_file.fields["api"].fields[j]
              /\ \A j \in DOMAIN DefaultApi \ DOMAIN config_file.fields["api"].fields :
                    config.value["api"].fields[j] = DefaultApi[j]

\* The file {"thread": 4, "api": {"port": 9000}} has been loaded.
C16_Witness ==
    /\ config.loaded
    /\ DOMAIN config_file.fields = {"thread", "api"}
    /\ config_file.fields["api"] = Object([port |-> "9000"])
    /\ config.value["thread"] = Atom("4")
    /\ config.value["headless"] = Atom("true")
    /\ config.value["api"] =
          Object([enabled |-> "false", host |-> "0.0.0.0", port |-> "9000"])

\* C17: the launcher constructs and runs the server exactly when
\* browser_type is one of chromium, chrome, msedge, camoufox and it is not
\* the case that headless is true, no user agent was given and browser_type
\* is not camoufox; when it refuses it logs an error and there is no server
\* and no pool.
C17_StartGuard ==
    launch.pc # "args" =>
        /\ (launch.pc = "running" /\ launch.server /\ solver = "obj")
             <=> (/\ args.browser_type \in {"chromium", "chrome", "msedge", "camoufox"}
                  /\ ~(/\ args.headless
                        /\ args.useragent = None
                        /\ args.browser_type # "camoufox"))
        /\ launch.pc = "refused" =>
              /\ launch.log # None
              /\ ~launch.server
              /\ solver = None
        /\ launch.pc = "running" => launch.log = None

\* Headless camoufox with no user agent has been started.
C17_Witness ==
    /\ launch.pc = "running"
    /\ args.headless /\ args.useragent = None /\ args.browser_type = "camoufox"
    /\ solver = "obj"

\* C18: no solve() ends with its context left open: a call that created a
\* context and has returned, also with the error result of a page-solve
\* failure, has closed the context and put its slot back.
C18_ContextClosedOnFailure ==
    \A c \in Calls :
        pc[c] = "done" /\ context[c] # "none" =>
            /\ context[c] = "closed"
            /\ slot[c] = 0

\* C19: whatever the clicks do, a call at the click step goes on to the
\* polling loop.
C19_ClickErrorsIgnored ==
    [][\A c \in Calls :
         pc[c] = "click" /\ pc'[c] # "click" => pc'[c] = "poll"]_vars

\* C20: a call waiting for a slot never gets one while a call that arrived
\* before it is still waiting.
C20_WaitersServedInOrder ==
    [][\A a, b \in Calls :
         a < b /\ pc[a] = "get" /\ pc[b] = "get" /\ pc'[b] # "get" =>
             pc'[a] # "get"]_vars

\* C21: in the Solver Core and in the Legacy Server no browser is held by two
\* calls at once, no browser is in the pool while a call holds it, and no
\* browser is in the pool twice.
C21_ExclusiveSlots ==
    /\ \A c, d \in Calls : c # d /\ slot[c] # 0 => slot[c] # slot[d]
    /\ \A c \in Calls : slot[c] # 0 => slot[c] \notin Range(browser_pool)
    /\ \A i, j \in 1..Len(browser_pool) :
          i # j => browser_pool[i] # browser_pool[j]

\* The only browser of a Solver Core is held by a call after another call
\* has used it and returned.
C21_Witness ==
    /\ ~api
    /\ thread_count = 1
    /\ \E c, d \in Calls :
         /\ pc[c] = "done" /\ result[c].time
         /\ slot[d] = 1
         /\ browser_pool = <<>>

\* {"status": "down", "message": "Solver pool empty"}
PoolEmptyAnswer ==
    [NoResult EXCEPT !.status = "down", !.message = "Solver pool empty"]

\* C22: with a solver constructed, GET /status reports as pool_size the
\* number of free slots at the time of the request and initialized exactly
\* when that number is at least 1; GET /health answers up with that number
\* exactly when it is at least 1 and down / "Solver pool empty" otherwise,
\* so also whenever thread_count calls hold all the browsers.
C22_LiveStatus ==
    [][\A c \in Calls :
         pc[c] = "idle" /\ pc'[c] = "done" /\ solver # None =>
            /\ request'[c].endpoint = "GET /status" =>
                  /\ http'[c] = 200
                  /\ result'[c].pool_size = Len(browser_pool)
                  /\ result'[c].initialized <=> Len(browser_pool) >= 1
            /\ request'[c].endpoint = "GET /health" =>
                  /\ http'[c] = 200
                  /\ result'[c] =
                        IF Len(browser_pool) >= 1
                          THEN [NoResult EXCEPT !.status = "up",
                                                !.pool_size = Len(browser_pool)]
                          ELSE PoolEmptyAnswer
                  /\ Cardinality(InFlight) = thread_count =>
                        result'[c] = PoolEmptyAnswer]_vars

\* A health request was answered down / "Solver pool empty" after a
\* successful initialization, while a solve holds the only browser.
C22_Witness ==
    /\ init_pc = "ready"
    /\ Cardinality(InFlight) = thread_count
    /\ \E c \in Calls :
         /\ request[c].endpoint = "GET /health"
         /\ pc[c] = "done"
         /\ result[c] = PoolEmptyAnswer

NoCallYet == \A c \in Calls : pc[c] = "idle"

\* C23: initialize() puts browser init_i + 1 into the pool at every launch
\* that succeeds, one at a time and in index order, and returns only after
\* thread_count of them: the browsers 1..thread_count, all in the pool in
\* that order while no call has been made; with a browser_type other than
\* chromium, chrome, msedge and camoufox it raises with nothing launched, no
\* engine started and the pool empty.
C23_InitializeFillsPool ==
    /\ [](/\ Range(browser_pool) \cup {slot[c] : c \in InFlight} = 1..init_i
          /\ init_pc = "ready" =>
                /\ init_i = thread_count
                /\ browser_type \in {"chromium", "chrome", "msedge", "camoufox"}
                /\ NoCallYet => browser_pool = [i \in 1..thread_count |-> i]
          /\ browser_type \notin {"chromium", "chrome", "msedge", "camoufox"} =>
                /\ init_pc \in {"new", "failed"}
                /\ init_i = 0
                /\ playwright = "unset"
                /\ browser_pool = <<>>)
    /\ [][init_i' # init_i =>
            /\ init_i' = init_i + 1
            /\ init_i' <= thread_count
            /\ browser_pool' = Append(browser_pool, init_i')]_vars

\* initialize() has returned with the browsers 1..MaxThread in the pool.
C23_Witness ==
    /\ init_pc = "ready"
    /\ thread_count = MaxThread
    /\ NoCallYet
    /\ Len(browser_pool) = MaxThread
    /\ \A i \in 1..MaxThread : browser_pool[i] = i

\* C24: whenever the host's lifespan has ended, after serving or by a startup
\* that failed, the solver's cleanup() has been run.
C24_ShutdownCleans ==
    lifespan_pc \in {"failed", "shutdown"} => cleanup_pc # "idle"

\* C25: run_cli() runs cleanup() exactly once on every exit path: cleanup()
\* is entered in the step in which the operator's interrupt or an exception
\* ends the idle loop or in which initialize() is found to have raised,
\* never before and never again, and run_cli() ends only after it.
C25_CliCleansOnce ==
    /\ cli.exit # None <=> cli.pc \in {"cleanup", "exited"}
    /\ cli.exit # None =>
          cli.exit \in {"KeyboardInterrupt", "Exception", "initialize() raised"}
    /\ cli.exit = "initialize() raised" <=>
          (init_pc = "failed" /\ cli.pc \in {"cleanup", "exited"})
    /\ cli.pc \in {"start", "initialize", "idle"} =>
          cleanup_pc = "idle" /\ cleanups = 0
    /\ cli.pc = "cleanup" => cleanup_pc # "idle" /\ cleanups <= 1
    /\ cli.pc = "exited" => cleanup_pc \in {"done", "raised"} /\ cleanups = 1

\* run_cli() has ended after an initialize() that failed at its second
\* browser: cleanup() has closed the first one.
C25_Witness ==
    /\ cli.pc = "exited"
    /\ cli.exit = "initialize() raised"
    /\ init_i = 1
    /\ closes[1] = 1
    /\ cleanups = 1

\* C26: a solve() that holds a slot ends only by returning a result: the
\* success result after context.close() returned, and otherwise, whatever
\* raised (context setup, page creation, the page-solve step, context.close()),
\* {status: "error", error, time}; the slot is back and the /api/solve
\* handler answers 200 with that result, never 500.
C26_SolveNeverRaises ==
    /\ [](\A c \in Calls : http[c] # 500)
    /\ [][\A c \in Calls :
            slot[c] # 0 /\ pc'[c] = "done" =>
                /\ slot'[c] = 0
                /\ http'[c] = 200
                /\ result'[c].time
                /\ result'[c].status \in {"success", "error"}
                /\ result'[c].status = "error" => result'[c].error # None
                /\ result'[c].status = "success" =>
                      pc[c] = "close" /\ context'[c] = "closed"]_vars

\* Two requests were answered 200 with error results: one whose context
\* setup raised, one whose context.close() raised.
C26_Witness ==
    \E c, d \in Calls :
        /\ request[c].endpoint \in SolveEndpoints /\ request[d].endpoint \in SolveEndpoints
        /\ pc[c] = "done" /\ pc[d] = "done"
        /\ http[c] = 200 /\ http[d] = 200
        /\ result[c] = ErrorResult("new_context failed")
        /\ result[d] = ErrorResult("close failed")

C28_CleanupSparesHeld ==
    /\ [](\A b \in Range(browser_pool) \cup {slot[c] : c \in InFlight} :
             closes[b] = 0)
    /\ [][/\ \A b \in DOMAIN closes :
                closes'[b] # closes[b] =>
                    /\ Len(browser_pool) > 0 /\ b = Head(browser_pool)
                    /\ browser_pool' = Tail(browser_pool)
                    /\ \A c \in Calls : slot[c] # b
          /\ \A c \in Calls :
                slot[c] # 0 /\ slot'[c] = 0 =>
                    browser_pool' = Append(browser_pool, slot[c])]_vars

\* cleanup() has returned with the engine stopped, and the pool holds a
\* browser that was checked out while cleanup() ran and was never closed:
\* get_status() reports initialized.
C28_Witness ==
    /\ cleanup_pc = "done"
    /\ stops = 1
    /\ playwright = "started"
    /\ NoSolveInFlight
    /\ Len(browser_pool) > 0
    /\ \A b \in Range(browser_pool) : b \notin drain.found /\ closes[b] = 0
    /\ SolverStatus.initialized
    /\ SolverStatus.pool_size = Len(browser_pool)

====
